---- MODULE Spec2Model ----
(***************************************************************************)
(* A model of wavefront-converter-rs: the vertex deduplicator and fan      *)
(* triangulator (model/mod.rs, modelfactory/mod.rs), the collision         *)
(* classifier (modelfactory/mod.rs, collisiondata/mod.rs) and the binary   *)
(* codecs of Model and CollisionData.                                      *)
(*                                                                         *)
(* Numbers.  An f32 is modelled as a signed 32-bit word; arithmetic on it  *)
(* is fixed-point arithmetic of that word.  u16 and u64 values keep their  *)
(* width: a u16 is reduced modulo U16Range, a u64 is held as four 16-bit   *)
(* limbs, most significant first.                                          *)
(***************************************************************************)
EXTENDS Integers, Sequences, FiniteSets, TLC

VARIABLES
    pc,                 \* "running", or "panicked" once a panic! / unwrap() aborted the process
    model,              \* the Model under construction (model/mod.rs:92-97)
    calls,              \* history: the get_index calls made directly on model, in order
    raw_model_data,     \* ModelFactory.raw_model_data, the attribute pool
    collision_data,     \* the CollisionData under construction
    include_collisions, \* the include_collisions argument of the run
    lines_read,         \* number of attribute lines of the source file consumed
    faces_read,         \* number of `f` lines consumed
    last_face,          \* history: the last `f` line handled, with the state before it
    mdl_file,           \* the exported mesh file: its bytes and who wrote them
    csn_file,           \* the exported collision file
    decoded_model,      \* outcome of Model::from_bytes, with the bytes it was given
    decoded_collisions, \* outcome of CollisionData::from_bytes, with the bytes it was given
    models,             \* ModelFactory.models: the objects stored so far
    stored_collision_data, \* ModelFactory.collision_data, one entry per stored object
    finalized,          \* history: per stored entry, how often remove_wall_duplicates
                        \* and then find_extents were applied to it
    exported,           \* history: the number of files export_all wrote
    api_call,           \* history: the last call a user of CollisionData made
    blank_line          \* history: whether a blank line ended the last object, and the
                        \* keys of the lines read since

codec_vars == <<mdl_file, csn_file, decoded_model, decoded_collisions>>

store_vars == <<models, stored_collision_data, finalized, exported, api_call, blank_line>>

vars == <<pc, model, calls, raw_model_data, collision_data, include_collisions,
          lines_read, faces_read, last_face, codec_vars, store_vars>>

(***************************************************************************)
(* Widths                                                                  *)
(***************************************************************************)
\* number of values of a u16 (`as u16`, model/mod.rs:120)
U16Range == 65536

\* bound: direct get_index calls made in one run of SpecDedup
MaxCalls == 3

(***************************************************************************)
(* Model (model/mod.rs)                                                    *)
(***************************************************************************)
\* The vertex every bulk call passes, and the normal index every bulk triple uses.
BulkVertex == [position |-> <<0, 0, 0>>, normal |-> <<0, 0, 0>>, tex_coord |-> <<0, 0>>]
BulkTriple(k) == <<k, 7, 0>>

\* Model::new.  `bulk` is a run-length form of the front of interleaved_vertices and
\* of index_map: the first `bulk` vertices are BulkVertex, pushed by get_index calls on
\* the triples BulkTriple(k), k = 0 .. bulk-1, in this order, so that triple k is
\* mapped as get_index maps it, to k as u16.  The explicit fields hold what follows.
NewModel ==
    [bulk |-> 0, interleaved_vertices |-> <<>>, face_indices |-> <<>>, index_map |-> <<>>]

\* interleaved_vertices.len()
VertexCount(m) == m.bulk + Len(m.interleaved_vertices)

\* let identifier: u64 = index_tex_coord + (index_normal << 16) + (index_position << 32);
\* computed limb by limb with carries, modulo 2^64.
identifier(index_position, index_normal, index_tex_coord) ==
    LET a1 == (index_tex_coord \div U16Range) + (index_normal % U16Range)
        a2 == (a1 \div U16Range) + (index_normal \div U16Range) + (index_position % U16Range)
        a3 == (a2 \div U16Range) + (index_position \div U16Range)
    IN  <<a3 % U16Range, a2 % U16Range, a1 % U16Range, index_tex_coord % U16Range>>

\* the key is one of the bulk triples' keys held in run-length form
IsBulkKey(m, id) ==
    /\ id[2] < m.bulk
    /\ id = identifier(BulkTriple(id[2])[1], BulkTriple(id[2])[2], BulkTriple(id[2])[3])

\* self.index_map.get(&identifier)
HasKey(m, id) == id \in DOMAIN m.index_map \/ IsBulkKey(m, id)

Lookup(m, id) == IF id \in DOMAIN m.index_map THEN m.index_map[id] ELSE id[2] % U16Range

\* Model::get_index: the model after the call and the index returned.
get_index_always_push(m, index_position, index_normal, index_tex_coord, vertex) ==
    LET id == identifier(index_position, index_normal, index_tex_coord)
        new_index == VertexCount(m) % U16Range
    IN  [model |-> [m EXCEPT !.index_map = (id :> new_index) @@ @,
                             !.interleaved_vertices = Append(@, vertex)],
         index |-> new_index]

\* get_index with the length taken after the push
get_index_len_after_push(m, index_position, index_normal, index_tex_coord, vertex) ==
    LET id == identifier(index_position, index_normal, index_tex_coord)
    IN  IF HasKey(m, id)
        THEN [model |-> m, index |-> Lookup(m, id)]
        ELSE LET new_index == (VertexCount(m) + 1) % U16Range
             IN  [model |-> [m EXCEPT !.index_map = (id :> new_index) @@ @,
                                      !.interleaved_vertices = Append(@, vertex)],
                  index |-> new_index]

get_index(m, index_position, index_normal, index_tex_coord, vertex) ==
    LET id == identifier(index_position, index_normal, index_tex_coord)
    IN  IF HasKey(m, id)
        THEN [model |-> m, index |-> Lookup(m, id)]
        ELSE LET new_index == VertexCount(m) % U16Range
             IN  [model |-> [m EXCEPT !.index_map = (id :> new_index) @@ @,
                                      !.interleaved_vertices = Append(@, vertex)],
                  index |-> new_index]

\* Model::add_face
add_face(m, indices) ==
    [m EXCEPT !.face_indices = @ \o <<indices[1], indices[2], indices[3]>>]

(***************************************************************************)
(* The source file of a run (the .obj text after tokenizing)               *)
(*                                                                         *)
(* Positions are in units of 1/200, normals in units of 1/60000 (every     *)
(* component a multiple of 6, so that /3.0 and *0.5 are exact), texture    *)
(* coordinates in units of 1/1000, angles in units of 1/10000 rad.         *)
(***************************************************************************)
\* the `v` lines, in file order
PositionTable ==
    << <<0, 0, 0>>, <<200, 0, 0>>, <<200, 0, 200>>, <<0, 0, 200>>,
       <<0, 400, 200>>, <<0, 400, 0>>, <<0, 600, 100>> >>

\* the `vt` lines, in file order
TexCoordTable == << <<0, 0>>, <<1000, 1000>> >>

\* the `vn` lines, in file order
NormalTable ==
    << <<0, 60000, 0>>,          \* 0: up
       <<60000, 0, 0>>,          \* 1: horizontal, +x
       <<59772, 5232, 0>>,       \* 2: (0.9962, 0.0872, 0)
       <<51960, 30000, 0>>,      \* 3: (0.8660, 0.5, 0)
       <<45966, 38568, 0>>,      \* 4: (0.7661, 0.6428, 0)
       <<59772, -5232, 0>>,      \* 5: (0.9962, -0.0872, 0)
       <<45966, -38568, 0>>,     \* 6: (0.7661, -0.6428, 0)
       <<0, 0, 0>>,              \* 7: the zero vector
       <<0, -60000, 0>>,         \* 8: down
       <<0, 0, 60000>> >>        \* 9: horizontal, +z

\* the attribute lines of the file in order: all `v`, then all `vt`, then all `vn`
AttributeLines ==
    [k \in 1..Len(PositionTable) |-> [key |-> "v", value |-> PositionTable[k]]]
    \o [k \in 1..Len(TexCoordTable) |-> [key |-> "vt", value |-> TexCoordTable[k]]]
    \o [k \in 1..Len(NormalTable) |-> [key |-> "vn", value |-> NormalTable[k]]]

\* IndexSet (modelfactory/mod.rs:17-21), written in the order of an `f` group p/t/n,
\* 0-based as after the `- 1` of lines 290-292
Group(p, t, n) == [position_index |-> p, normal_index |-> n, tex_coord_index |-> t]

\* the `f` lines a file may hold
FaceTable ==
    { << Group(0, 0, 0), Group(1, 0, 0), Group(2, 0, 0) >>,                    \* floor triangle
      << Group(0, 0, 0), Group(1, 0, 0), Group(2, 0, 0), Group(3, 1, 0) >>,    \* floor quad
      << Group(0, 0, 8), Group(1, 0, 8), Group(2, 0, 8), Group(3, 0, 8) >>,    \* ceiling quad
      << Group(0, 0, 1), Group(3, 0, 1), Group(4, 0, 1) >>,                    \* wall triangle
      << Group(0, 0, 1), Group(3, 0, 1), Group(4, 0, 1), Group(5, 0, 1) >>,    \* wall quad
      << Group(0, 0, 1), Group(3, 0, 1), Group(4, 0, 1), Group(6, 0, 1),
         Group(5, 0, 1) >>,                                                     \* wall pentagon
      << Group(0, 0, 1), Group(1, 0, 1), Group(4, 0, 1) >>,                    \* wall triangle, two
                                                                                \* corners as far right
      << Group(0, 0, 1), Group(1, 0, 1), Group(4, 0, 1), Group(6, 0, 1) >>,    \* wall quad, the last
                                                                                \* corner the highest
      << Group(0, 0, 9), Group(3, 0, 9), Group(4, 0, 9) >>,                    \* wall triangle seen
                                                                                \* edge-on
      << Group(0, 0, 9), Group(1, 0, 9), Group(5, 0, 9), Group(1, 0, 9),
         Group(5, 0, 9), Group(1, 0, 9) >>,                                     \* a wall triangle
                                                                                \* walked round twice
      << Group(0, 0, 2), Group(1, 0, 2), Group(2, 0, 2) >>,
      << Group(0, 0, 3), Group(1, 0, 3), Group(2, 0, 3) >>,
      << Group(0, 0, 4), Group(1, 0, 4), Group(2, 0, 4) >>,
      << Group(0, 0, 5), Group(1, 0, 5), Group(2, 0, 5) >>,
      << Group(0, 0, 6), Group(1, 0, 6), Group(2, 0, 6) >>,
      << Group(0, 0, 7), Group(1, 0, 7), Group(2, 0, 7) >>,
      << Group(0, 0, 1), Group(3, 0, 9), Group(4, 0, 1), Group(5, 0, 0) >>,    \* mixed normals
      << Group(0, 0, 0), Group(1, 0, 0) >>,                                    \* two groups
      << >>,                                                                    \* no group
      << Group(0, 5, 0), Group(1, 0, 0), Group(2, 0, 0) >> }                   \* vt 6 is never declared

\* bound: `f` lines consumed in one run
MaxFaces == 2

(***************************************************************************)
(* RawModelData (model/mod.rs:52-90)                                       *)
(***************************************************************************)
NewRawModelData == [raw_positions |-> <<>>, raw_tex_coords |-> <<>>, raw_normals |-> <<>>]

push_position(raw, position) == [raw EXCEPT !.raw_positions = Append(@, position)]
push_normal(raw, normal) == [raw EXCEPT !.raw_normals = Append(@, normal)]
push_tex_coord(raw, tex_coord) == [raw EXCEPT !.raw_tex_coords = Append(@, tex_coord)]

\* Vec::get(index as usize): Some(element) or None
Get(vec, index) ==
    IF index + 1 \in DOMAIN vec THEN [some |-> TRUE, value |-> vec[index + 1]]
    ELSE [some |-> FALSE, value |-> <<>>]

get_raw_position(raw, index) == Get(raw.raw_positions, index)
get_raw_normal(raw, index) == Get(raw.raw_normals, index)
get_raw_tex_coord(raw, index) == Get(raw.raw_tex_coords, index)

(***************************************************************************)
(* ModelFactory: the mesh path (modelfactory/mod.rs:40-68)                 *)
(***************************************************************************)
\* vertex_from_indices with unwrap_or_default() on the texture coordinate
vertex_from_indices_tex_coord_defaulted(raw, indices) ==
    LET position == get_raw_position(raw, indices.position_index)
        normal == get_raw_normal(raw, indices.normal_index)
        tex_coord == get_raw_tex_coord(raw, indices.tex_coord_index)
    IN  IF position.some /\ normal.some
        THEN [panicked |-> FALSE,
              vertex |-> [position |-> position.value, normal |-> normal.value,
                          tex_coord |-> IF tex_coord.some THEN tex_coord.value
                                        ELSE <<0, 0>>]]
        ELSE [panicked |-> TRUE, vertex |-> BulkVertex]

\* vertex_from_indices: the Vertex, or a panic when one of the three unwrap()s meets None
vertex_from_indices(raw, indices) ==
    LET position == get_raw_position(raw, indices.position_index)
        normal == get_raw_normal(raw, indices.normal_index)
        tex_coord == get_raw_tex_coord(raw, indices.tex_coord_index)
    IN  IF position.some /\ normal.some /\ tex_coord.some
        THEN [panicked |-> FALSE,
              vertex |-> [position |-> position.value, normal |-> normal.value,
                          tex_coord |-> tex_coord.value]]
        ELSE [panicked |-> TRUE, vertex |-> BulkVertex]

\* one `vertex_from_indices` then `model.get_index` pair (lines 52-53, 58-59, 63-64)
IndexOfGrouping(raw, m, grouping) ==
    LET v == vertex_from_indices(raw, grouping)
    IN  IF v.panicked
        THEN [panicked |-> TRUE, model |-> m, index |-> 0]
        ELSE LET r == get_index(m, grouping.position_index, grouping.normal_index,
                                grouping.tex_coord_index, v.vertex)
             IN  [panicked |-> FALSE, model |-> r.model, index |-> r.index]

\* the loop of lines 62-67, from the k-th index set on; `indices` collects what
\* get_index returned, one entry per index set handled
RECURSIVE FanLoop_second_kept(_, _, _, _, _, _, _)
FanLoop_second_kept(raw, index_sets, k, m, start_index, second_index, indices) ==
    IF k > Len(index_sets)
    THEN [panicked |-> FALSE, model |-> m, indices |-> indices]
    ELSE LET r == IndexOfGrouping(raw, m, index_sets[k])
         IN  IF r.panicked
             THEN [panicked |-> TRUE, model |-> m, indices |-> indices]
             ELSE FanLoop_second_kept(raw, index_sets, k + 1,
                          add_face(r.model, <<start_index, second_index, r.index>>),
                          start_index, second_index, Append(indices, r.index))

RECURSIVE FanLoop(_, _, _, _, _, _, _)
FanLoop(raw, index_sets, k, m, start_index, second_index, indices) ==
    IF k > Len(index_sets)
    THEN [panicked |-> FALSE, model |-> m, indices |-> indices]
    ELSE LET r == IndexOfGrouping(raw, m, index_sets[k])
         IN  IF r.panicked
             THEN [panicked |-> TRUE, model |-> m, indices |-> indices]
             ELSE FanLoop(raw, index_sets, k + 1,
                          add_face(r.model, <<start_index, second_index, r.index>>),
                          start_index, r.index, Append(indices, r.index))

\* add_faces_for_index_sets: index_sets[0] and index_sets[1] panic when out of bounds
add_faces_for_index_sets(raw, index_sets, m) ==
    IF Len(index_sets) < 1
    THEN [panicked |-> TRUE, model |-> m, indices |-> <<>>]
    ELSE LET r0 == IndexOfGrouping(raw, m, index_sets[1])
         IN  IF r0.panicked
             THEN [panicked |-> TRUE, model |-> m, indices |-> <<>>]
             ELSE IF Len(index_sets) < 2
             THEN [panicked |-> TRUE, model |-> r0.model, indices |-> <<r0.index>>]
             ELSE LET r1 == IndexOfGrouping(raw, r0.model, index_sets[2])
                  IN  IF r1.panicked
                      THEN [panicked |-> TRUE, model |-> r0.model, indices |-> <<r0.index>>]
                      ELSE FanLoop(raw, index_sets, 3, r1.model, r0.index, r1.index,
                                   <<r0.index, r1.index>>)

(***************************************************************************)
(* collisiondata/mod.rs: Vec3, Surface, Wall, CollisionData                *)
(***************************************************************************)
WALL_NORMAL_ELEVATION_MIN == -873
WALL_NORMAL_ELEVATION_MAX == 873
SLIDE_NORMAL_ELEVATION_MIN == -6981
SLIDE_NORMAL_ELEVATION_MAX == 6981

\* the fixed-point value of 1.0 in a normal
NormalOne == 6 * 10000

Vec3(x, y, z) == [x |-> x, y |-> y, z |-> z]
Vec3Default == Vec3(0, 0, 0)

\* Vec3::dot
dot(a, b) == a.x * b.x + a.y * b.y + a.z * b.z

\* impl Add / Sub / Mul<f32> for Vec3; only `* 0.5` is used (modelfactory/mod.rs:127)
Vec3Add(a, b) == Vec3(a.x + b.x, a.y + b.y, a.z + b.z)
Vec3Sub(a, b) == Vec3(a.x - b.x, a.y - b.y, a.z - b.z)
Vec3Half(a) == Vec3(a.x \div 2, a.y \div 2, a.z \div 2)

\* f32::sqrt on a non-negative fixed-point value, rounded down: the r in lo..hi
\* with r*r <= n < (r+1)*(r+1)
RECURSIVE SqrtBetween(_, _, _)
SqrtBetween(n, lo, hi) ==
    IF lo >= hi THEN lo
    ELSE LET mid == (lo + hi + 1) \div 2
         IN  IF mid * mid <= n THEN SqrtBetween(n, mid, hi) ELSE SqrtBetween(n, lo, mid - 1)

Sqrt(n) == SqrtBetween(n, 0, 46340)

\* Vec3::len
len(v) == Sqrt(v.x * v.x + v.y * v.y + v.z * v.z)

\* Vec3::normalise: the zero vector when the length is 0.0; the result is a normal,
\* in units of 1/NormalOne
normalise(v) ==
    LET length == Sqrt(v.x * v.x + v.y * v.y + v.z * v.z)
    IN  IF length = 0 THEN Vec3Default
        ELSE Vec3((v.x * NormalOne) \div length, (v.y * NormalOne) \div length,
                  (v.z * NormalOne) \div length)

\* Wall::from_bottom_left_to_top_right
from_bottom_left_to_top_right(bottom_left, top_right) ==
    LET bottom_edge == Vec3(top_right.x - bottom_left.x, 0, top_right.z - bottom_left.z)
        normal_direction == Vec3(-bottom_edge.z, 0, bottom_edge.x)
    IN  [bottom_left |-> bottom_left, top_right |-> top_right,
         normal |-> normalise(normal_direction)]

\* CollisionData::new
NewCollisionData ==
    [extent_x |-> <<0, 0>>, extent_y |-> <<0, 0>>, extent_z |-> <<0, 0>>,
     traction_surfaces |-> <<>>, sliding_surfaces |-> <<>>, walls |-> <<>>]

(***************************************************************************)
(* ModelFactory: the collision path (modelfactory/mod.rs:75-256)           *)
(***************************************************************************)
\* (y / normal_length).asin() of the average normals the file's faces give, rounded
\* to 1/10000 rad; none of them lies within that rounding of a threshold on the
\* other side of it
AsinTable ==
    (<<0, 60000, 0>> :> 15708) @@ (<<60000, 0, 0>> :> 0) @@ (<<59772, 5232, 0>> :> 873)
    @@ (<<51960, 30000, 0>> :> 5236) @@ (<<45966, 38568, 0>> :> 6981)
    @@ (<<59772, -5232, 0>> :> -873) @@ (<<45966, -38568, 0>> :> -6981)
    @@ (<<0, -60000, 0>> :> -15708) @@ (<<0, 0, 60000>> :> 0)
    @@ (<<40000, 0, 20000>> :> 0) @@ (<<40000, 20000, 0>> :> 4636)

\* lines 103-106: an f32 angle, NaN for the zero vector (0.0 / 0.0)
normal_elevation(average_normal) ==
    IF average_normal = Vec3Default
    THEN [nan |-> TRUE, rad |-> 0]
    ELSE [nan |-> FALSE,
          rad |-> AsinTable[<<average_normal.x, average_normal.y, average_normal.z>>]]

\* f32 `>` and `<` against a constant: false when the angle is NaN
Gt(angle, bound) == ~angle.nan /\ angle.rad > bound
Lt(angle, bound) == ~angle.nan /\ angle.rad < bound

\* lines 87-108: the candidate surface i (0-based) of the fan and its elevation
CandidateSurface(vertices, i) ==
    LET vertex_0 == vertices[1]
        vertex_1 == vertices[i + 2]
        vertex_2 == vertices[i + 3]
        average_normal ==
            Vec3((vertex_0.normal[1] + vertex_1.normal[1] + vertex_2.normal[1]) \div 3,
                 (vertex_0.normal[2] + vertex_1.normal[2] + vertex_2.normal[2]) \div 3,
                 (vertex_0.normal[3] + vertex_1.normal[3] + vertex_2.normal[3]) \div 3)
        surface ==
            [point_0 |-> Vec3(vertex_0.position[1], vertex_0.position[2], vertex_0.position[3]),
             point_1 |-> Vec3(vertex_1.position[1], vertex_1.position[2], vertex_1.position[3]),
             point_2 |-> Vec3(vertex_2.position[1], vertex_2.position[2], vertex_2.position[3]),
             normal |-> average_normal]
    IN  [surface |-> surface, angle |-> normal_elevation(average_normal)]

min_of_3(val0, val1, val2) ==
    LET m1 == IF val1 < val0 THEN val1 ELSE val0
    IN  IF val2 < m1 THEN val2 ELSE m1

max_of_3(val0, val1, val2) ==
    LET m1 == IF val1 > val0 THEN val1 ELSE val0
    IN  IF val2 > m1 THEN val2 ELSE m1

min_of_4(val0, val1, val2, val3) ==
    LET m1 == IF val1 < val0 THEN val1 ELSE val0
        m2 == IF val2 < m1 THEN val2 ELSE m1
    IN  IF val3 < m2 THEN val3 ELSE m2

max_of_4(val0, val1, val2, val3) ==
    LET m1 == IF val1 > val0 THEN val1 ELSE val0
        m2 == IF val2 > m1 THEN val2 ELSE m1
    IN  IF val3 > m2 THEN val3 ELSE m2

\* the 0-based index of the first point with the largest dot product
max_point_of_3_in_direction_last_wins(direction, points) ==
    LET dots == <<dot(points[1], direction), dot(points[2], direction),
                  dot(points[3], direction)>>
        i1 == IF dots[2] >= dots[1] THEN 1 ELSE 0
        v1 == IF dots[2] >= dots[1] THEN dots[2] ELSE dots[1]
    IN  IF dots[3] >= v1 THEN 2 ELSE i1

max_point_of_3_in_direction(direction, points) ==
    LET dots == <<dot(points[1], direction), dot(points[2], direction),
                  dot(points[3], direction)>>
        i1 == IF dots[2] > dots[1] THEN 1 ELSE 0
        v1 == IF dots[2] > dots[1] THEN dots[2] ELSE dots[1]
    IN  IF dots[3] > v1 THEN 2 ELSE i1

max_point_of_4_in_direction(direction, points) ==
    LET dots == <<dot(points[1], direction), dot(points[2], direction),
                  dot(points[3], direction), dot(points[4], direction)>>
        i1 == IF dots[2] > dots[1] THEN 1 ELSE 0
        v1 == IF dots[2] > dots[1] THEN dots[2] ELSE dots[1]
        i2 == IF dots[3] > v1 THEN 2 ELSE i1
        v2 == IF dots[3] > v1 THEN dots[3] ELSE v1
    IN  IF dots[4] > v2 THEN 3 ELSE i2

\* lines 121-135: the one wall of a quad whose two triangles are both walls
WallOfQuad(all_surfaces) ==
    LET points == <<all_surfaces[1].surface.point_0, all_surfaces[1].surface.point_1,
                    all_surfaces[2].surface.point_1, all_surfaces[2].surface.point_2>>
        mean == Vec3Half(Vec3Add(all_surfaces[1].surface.normal,
                                 all_surfaces[2].surface.normal))
        approx_wall_normal == [mean EXCEPT !.y = 0]
        left_direction == Vec3(-approx_wall_normal.z, 0, approx_wall_normal.x)
        right_direction == Vec3(approx_wall_normal.z, 0, -approx_wall_normal.x)
        left_extreme_point ==
            [points[max_point_of_4_in_direction(left_direction, points) + 1]
                EXCEPT !.y = min_of_4(points[1].y, points[2].y, points[3].y, points[4].y)]
        right_extreme_point ==
            [points[max_point_of_4_in_direction(right_direction, points) + 1]
                EXCEPT !.y = max_of_4(points[1].y, points[2].y, points[3].y, points[4].y)]
    IN  from_bottom_left_to_top_right(left_extreme_point, right_extreme_point)

\* the wall of one wall triangle with left_direction and right_direction exchanged
WallOfTriangle_sides_exchanged(surface) ==
    LET points == <<surface.point_0, surface.point_1, surface.point_2>>
        approx_wall_normal == [surface.normal EXCEPT !.y = 0]
        left_direction == Vec3(approx_wall_normal.z, 0, -approx_wall_normal.x)
        right_direction == Vec3(-approx_wall_normal.z, 0, approx_wall_normal.x)
        left_extreme_point ==
            [points[max_point_of_3_in_direction(left_direction, points) + 1]
                EXCEPT !.y = min_of_3(points[1].y, points[2].y, points[3].y)]
        right_extreme_point ==
            [points[max_point_of_3_in_direction(right_direction, points) + 1]
                EXCEPT !.y = max_of_3(points[1].y, points[2].y, points[3].y)]
    IN  from_bottom_left_to_top_right(left_extreme_point, right_extreme_point)

\* lines 144-157: the wall of one wall triangle
WallOfTriangle(surface) ==
    LET points == <<surface.point_0, surface.point_1, surface.point_2>>
        approx_wall_normal == [surface.normal EXCEPT !.y = 0]
        left_direction == Vec3(-approx_wall_normal.z, 0, approx_wall_normal.x)
        right_direction == Vec3(approx_wall_normal.z, 0, -approx_wall_normal.x)
        left_extreme_point ==
            [points[max_point_of_3_in_direction(left_direction, points) + 1]
                EXCEPT !.y = min_of_3(points[1].y, points[2].y, points[3].y)]
        right_extreme_point ==
            [points[max_point_of_3_in_direction(right_direction, points) + 1]
                EXCEPT !.y = max_of_3(points[1].y, points[2].y, points[3].y)]
    IN  from_bottom_left_to_top_right(left_extreme_point, right_extreme_point)

\* the test of lines 114 and 143
InWallRange(angle) ==
    Gt(angle, WALL_NORMAL_ELEVATION_MIN) /\ Lt(angle, WALL_NORMAL_ELEVATION_MAX)

\* the if / else if / else of lines 143, 159, 161
Category_bounds_included(angle) ==
    IF ~angle.nan /\ angle.rad >= WALL_NORMAL_ELEVATION_MIN
                  /\ angle.rad <= WALL_NORMAL_ELEVATION_MAX
    THEN "wall"
    ELSE IF ~angle.nan /\ angle.rad <= SLIDE_NORMAL_ELEVATION_MAX
                       /\ angle.rad >= SLIDE_NORMAL_ELEVATION_MIN
    THEN "sliding"
    ELSE "traction"

Category(angle) ==
    IF InWallRange(angle)
    THEN "wall"
    ELSE IF Lt(angle, SLIDE_NORMAL_ELEVATION_MAX) /\ Gt(angle, SLIDE_NORMAL_ELEVATION_MIN)
    THEN "sliding"
    ELSE "traction"

\* the loop of lines 141-164, from the k-th candidate on
RECURSIVE ClassifyLoop(_, _, _)
ClassifyLoop(all_surfaces, k, cd) ==
    IF k > Len(all_surfaces) THEN cd
    ELSE LET s == all_surfaces[k]
             c == Category(s.angle)
         IN  ClassifyLoop(all_surfaces, k + 1,
                 IF c = "wall"
                 THEN [cd EXCEPT !.walls = Append(@, WallOfTriangle(s.surface))]
                 ELSE IF c = "sliding"
                 THEN [cd EXCEPT !.sliding_surfaces = Append(@, s.surface)]
                 ELSE [cd EXCEPT !.traction_surfaces = Append(@, s.surface)])

\* lines 77-108: the candidates of a face; <<>> when there are fewer than 3 vertices
AllSurfaces(vertices) ==
    IF Len(vertices) - 2 < 1 THEN <<>>
    ELSE [i \in 1..(Len(vertices) - 2) |-> CandidateSurface(vertices, i - 1)]

\* line 111-117
make_wall_from_quad_never(all_surfaces) == FALSE

make_wall_from_quad_one_suffices(all_surfaces) ==
    IF Len(all_surfaces) = 2
    THEN InWallRange(all_surfaces[1].angle) \/ InWallRange(all_surfaces[2].angle)
    ELSE FALSE

make_wall_from_quad(all_surfaces) ==
    IF Len(all_surfaces) = 2
    THEN InWallRange(all_surfaces[1].angle) /\ InWallRange(all_surfaces[2].angle)
    ELSE FALSE

\* add_collisions_for_index_sets
add_collisions_for_index_sets(raw, index_sets, cd) ==
    LET resolved == [k \in 1..Len(index_sets) |-> vertex_from_indices(raw, index_sets[k])]
    IN  IF \E k \in 1..Len(index_sets) : resolved[k].panicked
        THEN [panicked |-> TRUE, collision_data |-> cd]
        ELSE LET vertices == [k \in 1..Len(index_sets) |-> resolved[k].vertex]
                 all_surfaces == AllSurfaces(vertices)
             IN  [panicked |-> FALSE,
                  collision_data |->
                     IF Len(vertices) - 2 < 1 THEN cd
                     ELSE IF make_wall_from_quad(all_surfaces)
                     THEN [cd EXCEPT !.walls = Append(@, WallOfQuad(all_surfaces))]
                     ELSE ClassifyLoop(all_surfaces, 1, cd)]

(***************************************************************************)
(* CollisionData::remove_wall_duplicates (collisiondata/mod.rs:135-168)    *)
(***************************************************************************)
\* the 0.01 of lines 144-156, in the unit of positions (1/200)
DuplicateTolerance == 2

\* f32::abs
Abs(a) == IF a < 0 THEN -a ELSE a

\* lines 144-157: none of the four `continue`s is taken for walls with these
\* corners.  The walls of this model have corner distances that are not between 0.01
\* and 0.015, so that the floor of the square root compares with 0.01 as the f32 does.
CornersWithin(bottom_left_0, top_right_0, bottom_left_1, top_right_1) ==
    LET left_to_left == [Vec3Sub(bottom_left_0, bottom_left_1) EXCEPT !.y = 0]
        right_to_right == [Vec3Sub(top_right_0, top_right_1) EXCEPT !.y = 0]
    IN  /\ ~(Abs(bottom_left_0.y - bottom_left_1.y) > DuplicateTolerance)
        /\ ~(Abs(top_right_0.y - top_right_1.y) > DuplicateTolerance)
        /\ ~(len(left_to_left) > DuplicateTolerance)
        /\ ~(len(right_to_right) > DuplicateTolerance)

\* the comparison of wall_being_searched with wall_to_compare_with
ComparesEqual(wall_being_searched, wall_to_compare_with) ==
    CornersWithin(wall_being_searched.bottom_left, wall_being_searched.top_right,
                  wall_to_compare_with.bottom_left, wall_to_compare_with.top_right)

\* lines 139-162: indices_to_remove after the two nested loops, from the pair
\* (index, scan_index) on (both 0-based); `index` is pushed once per match
RECURSIVE IndicesToRemove(_, _, _)
IndicesToRemove(walls, index, scan_index) ==
    IF index >= Len(walls) - 1 THEN <<>>
    ELSE IF scan_index >= Len(walls) THEN IndicesToRemove(walls, index + 1, index + 2)
    ELSE (IF ComparesEqual(walls[index + 1], walls[scan_index + 1])
          THEN <<index>> ELSE <<>>)
         \o IndicesToRemove(walls, index, scan_index + 1)

\* Vec::reverse
Reverse(seq) == [k \in 1..Len(seq) |-> seq[Len(seq) + 1 - k]]

\* Vec::remove(index): panics when index >= len
VecRemove(vec, index) ==
    IF index >= Len(vec) THEN [panicked |-> TRUE, vec |-> vec]
    ELSE [panicked |-> FALSE,
          vec |-> SubSeq(vec, 1, index) \o SubSeq(vec, index + 2, Len(vec))]

\* lines 164-167: the removals, from the k-th entry of the reversed list on
RECURSIVE RemoveLoop(_, _, _)
RemoveLoop(walls, indices_to_remove, k) ==
    IF k > Len(indices_to_remove) THEN [panicked |-> FALSE, walls |-> walls]
    ELSE LET r == VecRemove(walls, indices_to_remove[k])
         IN  IF r.panicked THEN [panicked |-> TRUE, walls |-> walls]
             ELSE RemoveLoop(r.vec, indices_to_remove, k + 1)

\* CollisionData::remove_wall_duplicates
remove_wall_duplicates(cd) ==
    IF Len(cd.walls) < 2 THEN [panicked |-> FALSE, collision_data |-> cd]
    ELSE LET r == RemoveLoop(cd.walls, Reverse(IndicesToRemove(cd.walls, 0, 1)), 1)
         IN  [panicked |-> r.panicked, collision_data |-> [cd EXCEPT !.walls = r.walls]]

(***************************************************************************)
(* CollisionData::find_extents (collisiondata/mod.rs:170-253)              *)
(***************************************************************************)
\* one pass of the six `if`s of a loop body over a point
ScanPoint(e, point) ==
    [x_min |-> IF point.x < e.x_min THEN point.x ELSE e.x_min,
     x_max |-> IF point.x > e.x_max THEN point.x ELSE e.x_max,
     y_min |-> IF point.y < e.y_min THEN point.y ELSE e.y_min,
     y_max |-> IF point.y > e.y_max THEN point.y ELSE e.y_max,
     z_min |-> IF point.z < e.z_min THEN point.z ELSE e.z_min,
     z_max |-> IF point.z > e.z_max THEN point.z ELSE e.z_max]

RECURSIVE ScanPoints(_, _, _)
ScanPoints(e, points, k) ==
    IF k > Len(points) THEN e ELSE ScanPoints(ScanPoint(e, points[k]), points, k + 1)

RECURSIVE SurfacePoints(_, _)
SurfacePoints(surfaces, k) ==
    IF k > Len(surfaces) THEN <<>>
    ELSE <<surfaces[k].point_0, surfaces[k].point_1, surfaces[k].point_2>>
         \o SurfacePoints(surfaces, k + 1)

\* line 225: [&wall.bottom_left, &wall.bottom_left]
RECURSIVE WallPoints_both_corners(_, _)
WallPoints_both_corners(walls, k) ==
    IF k > Len(walls) THEN <<>>
    ELSE <<walls[k].bottom_left, walls[k].top_right>>
         \o WallPoints_both_corners(walls, k + 1)

RECURSIVE WallPoints(_, _)
WallPoints(walls, k) ==
    IF k > Len(walls) THEN <<>>
    ELSE <<walls[k].bottom_left, walls[k].bottom_left>> \o WallPoints(walls, k + 1)

find_extents(cd) ==
    LET zero == [x_min |-> 0, x_max |-> 0, y_min |-> 0, y_max |-> 0, z_min |-> 0, z_max |-> 0]
        e == ScanPoints(zero, SurfacePoints(cd.traction_surfaces, 1)
                              \o SurfacePoints(cd.sliding_surfaces, 1)
                              \o WallPoints(cd.walls, 1), 1)
    IN  [cd EXCEPT !.extent_x = <<e.x_min, e.x_max>>,
                   !.extent_y = <<e.y_min, e.y_max>>,
                   !.extent_z = <<e.z_min, e.z_max>>]

(***************************************************************************)
(* ModelFactory::extract_next_model_from_stream, line by line              *)
(***************************************************************************)
\* no file exported and nothing decoded yet
NoFile == [origin |-> "none", bytes |-> <<>>]
NoDecodedModel == [status |-> "none", source |-> <<>>, model |-> NewModel]
NoDecodedCollisions ==
    [status |-> "none", source |-> <<>>, collision_data |-> NewCollisionData]
NoFiles ==
    /\ mdl_file = NoFile
    /\ csn_file = NoFile
    /\ decoded_model = NoDecodedModel
    /\ decoded_collisions = NoDecodedCollisions

\* ModelFactory::new: nothing stored, nothing exported
NoCall == [op |-> "none", before |-> NewCollisionData]
NoBlankLine == [seen |-> FALSE, skipped |-> <<>>]
NoObjects ==
    /\ models = <<>>
    /\ stored_collision_data = <<>>
    /\ finalized = <<>>
    /\ exported = [mdl |-> 0, csn |-> 0]
    /\ api_call = NoCall
    /\ blank_line = NoBlankLine

NoFace == [index_sets |-> <<>>, handled |-> FALSE, indices |-> <<>>,
           model_before |-> NewModel, collisions_before |-> NewCollisionData]

Init ==
    /\ pc = "running"
    /\ model = NewModel
    /\ calls = <<>>
    /\ raw_model_data = NewRawModelData
    /\ collision_data = NewCollisionData
    /\ include_collisions \in BOOLEAN
    /\ lines_read = 0
    /\ faces_read = 0
    /\ last_face = NoFace
    /\ NoFiles
    /\ NoObjects

\* KEY_VERTEX, KEY_NORMAL, KEY_TEX_COORD (lines 268-284)
ReadAttributeLine ==
    /\ pc = "running"
    /\ lines_read < Len(AttributeLines)
    /\ LET line == AttributeLines[lines_read + 1]
       IN  raw_model_data' =
             IF line.key = "v" THEN push_position(raw_model_data, line.value)
             ELSE IF line.key = "vn" THEN push_normal(raw_model_data, line.value)
             ELSE push_tex_coord(raw_model_data, line.value)
    /\ lines_read' = lines_read + 1
    /\ UNCHANGED <<pc, model, calls, collision_data, include_collisions, faces_read, last_face,
                   codec_vars, store_vars>>

\* KEY_FACE (lines 285-300)
ReadFaceLine ==
    /\ pc = "running"
    /\ faces_read < MaxFaces
    /\ \E index_sets \in FaceTable :
         LET f == add_faces_for_index_sets(raw_model_data, index_sets, model)
             c == IF f.panicked \/ ~include_collisions
                  THEN [panicked |-> FALSE, collision_data |-> collision_data]
                  ELSE add_collisions_for_index_sets(raw_model_data, index_sets,
                                                     collision_data)
         IN  /\ model' = f.model
             /\ collision_data' = c.collision_data
             /\ pc' = IF f.panicked \/ c.panicked THEN "panicked" ELSE "running"
             /\ last_face' = [index_sets |-> index_sets,
                              handled |-> ~(f.panicked \/ c.panicked),
                              indices |-> f.indices,
                              model_before |-> model,
                              collisions_before |-> collision_data]
    /\ faces_read' = faces_read + 1
    /\ UNCHANGED <<calls, raw_model_data, include_collisions, lines_read, codec_vars, store_vars>>

\* bound: `o` lines of a file, the one that starts the first object included
MaxObjects == 2

\* KEY_OBJECT with the Model and CollisionData carried over to the next object
ReadObjectLine_state_kept ==
    /\ pc = "running"
    /\ Len(models) + 1 < MaxObjects
    /\ models' = Append(models, model)
    /\ stored_collision_data' = Append(stored_collision_data, collision_data)
    /\ finalized' = Append(finalized, 0)
    /\ \E has_name \in BOOLEAN :
         pc' = IF has_name THEN "running" ELSE "panicked"
    /\ last_face' = NoFace
    /\ UNCHANGED <<model, collision_data, calls, raw_model_data, include_collisions,
                   lines_read, faces_read, codec_vars, exported, api_call, blank_line>>

\* KEY_OBJECT (lines 301-309): the object is stored as it is and the next begins;
\* an `o` line without a name panics after the two pushes
ReadObjectLine ==
    /\ pc = "running"
    /\ Len(models) + 1 < MaxObjects
    /\ models' = Append(models, model)
    /\ stored_collision_data' = Append(stored_collision_data, collision_data)
    /\ finalized' = Append(finalized, 0)
    /\ \E has_name \in BOOLEAN :
         IF has_name
         THEN /\ pc' = "running"
              /\ model' = NewModel
              /\ collision_data' = NewCollisionData
         ELSE /\ pc' = "panicked"
              /\ UNCHANGED <<model, collision_data>>
    /\ last_face' = NoFace
    /\ UNCHANGED <<calls, raw_model_data, include_collisions, lines_read, faces_read,
                   codec_vars, exported, api_call, blank_line>>

\* the end of the lines (lines 312-317): the object is finalized and stored
EndOfFile ==
    /\ pc = "running"
    /\ LET deduplicated == remove_wall_duplicates(collision_data)
       IN  IF deduplicated.panicked
           THEN /\ pc' = "panicked"
                /\ UNCHANGED <<collision_data, models, stored_collision_data, finalized>>
           ELSE /\ pc' = "done"
                /\ collision_data' = find_extents(deduplicated.collision_data)
                /\ models' = Append(models, model)
                /\ stored_collision_data' = Append(stored_collision_data, collision_data')
                /\ finalized' = Append(finalized, 1)
    /\ last_face' = NoFace
    /\ UNCHANGED <<model, calls, raw_model_data, include_collisions, lines_read,
                   faces_read, codec_vars, exported, api_call, blank_line>>

\* ModelFactory::export_all, called by process_file once the file is extracted: one
\* .mdl per stored model and, with a collision path, one .csn per stored entry
ExportAll ==
    /\ pc = "done"
    /\ pc' = "exported"
    /\ exported' = [mdl |-> Len(models),
                    csn |-> IF include_collisions THEN Len(stored_collision_data) ELSE 0]
    /\ UNCHANGED <<model, calls, raw_model_data, collision_data, include_collisions,
                   lines_read, faces_read, last_face, codec_vars, models,
                   stored_collision_data, finalized, api_call, blank_line>>

\* the lines of a file that holds one object, then the export
Next ==
    \/ ReadAttributeLine
    \/ ReadFaceLine
    \/ EndOfFile
    \/ ExportAll

Spec == Init /\ [][Next]_vars

(***************************************************************************)
(* SpecDedup: a caller of the public Model API                             *)
(***************************************************************************)
\* index components a caller passes (u64 parameters); 65536 does not fit in 16 bits
PositionArgs == {0, 1}
NormalArgs == {0, 1}
TexCoordArgs == {0, 65536}
VertexArgs ==
    {[position |-> <<1, 2, -1>>, normal |-> <<0, 1, 0>>, tex_coord |-> <<0, 1>>],
     [position |-> <<-1, 2, 1>>, normal |-> <<0, 0, 1>>, tex_coord |-> <<1, 0>>]}

\* the caller fills an empty model with U16Range - 1 distinct triples, one get_index
\* call each
BulkCount == U16Range - 1

InitDedup ==
    /\ pc = "running"
    /\ model = NewModel
    /\ calls = <<>>
    /\ raw_model_data = NewRawModelData
    /\ collision_data = NewCollisionData
    /\ include_collisions = FALSE
    /\ lines_read = 0
    /\ faces_read = 0
    /\ last_face = NoFace
    /\ NoFiles
    /\ NoObjects

GetIndex ==
    /\ pc = "running"
    /\ Len(calls) < MaxCalls
    /\ \E p \in PositionArgs, n \in NormalArgs, t \in TexCoordArgs, v \in VertexArgs :
         LET r == get_index(model, p, n, t, v)
         IN  /\ model' = r.model
             /\ calls' = Append(calls, [triple |-> <<p, n, t>>, vertex |-> v,
                                        index |-> r.index,
                                        before |-> model, after |-> r.model])
    /\ UNCHANGED <<pc, raw_model_data, collision_data, include_collisions, lines_read,
                   faces_read, last_face, codec_vars, store_vars>>

FillModel ==
    /\ pc = "running"
    /\ VertexCount(model) = 0
    /\ model' = [model EXCEPT !.bulk = BulkCount]
    /\ UNCHANGED <<pc, calls, raw_model_data, collision_data, include_collisions,
                   lines_read, faces_read, last_face, codec_vars, store_vars>>

NextDedup == GetIndex \/ FillModel

SpecDedup == InitDedup /\ [][NextDedup]_vars

(***************************************************************************)
(* Properties of the deduplicator                                          *)
(***************************************************************************)
Fits16(triple) == \A c \in 1..3 : triple[c] \in 0..(U16Range - 1)

IsPrefix(s, t) == Len(s) <= Len(t) /\ SubSeq(t, 1, Len(s)) = s

\* the call added a vertex
Grew(call) == VertexCount(call.after) > VertexCount(call.before)

\* C1: two get_index calls on one Model with the same (position, normal, texcoord)
\* triple return the same index, whatever calls lie between them; the second call
\* changes neither the length nor the content of interleaved_vertices, and all that
\* the vector held after the first call is still in place after the second.
C1_SameTripleSameIndex ==
    \A i, j \in 1..Len(calls) :
        (i < j /\ calls[i].triple = calls[j].triple) =>
            /\ calls[j].index = calls[i].index
            /\ calls[j].after.interleaved_vertices = calls[j].before.interleaved_vertices
            /\ calls[j].after.bulk = calls[j].before.bulk
            /\ IsPrefix(calls[i].after.interleaved_vertices,
                        calls[j].after.interleaved_vertices)
            /\ calls[i].after.bulk = calls[j].after.bulk

\* the same triple twice, with a call between them that added another vertex
C1_Witness ==
    \E i, j \in 1..Len(calls) :
        /\ i + 1 < j
        /\ calls[i].triple = calls[j].triple
        /\ Grew(calls[i + 1])

\* C2: within one mesh object, two index triples whose components fit in 16 bits get
\* the same vertex index from get_index exactly when they are equal triples; the
\* triples given their index in run-length form (triple k has index k) are included.
C2_DistinctTriplesDistinctIndices ==
    /\ \A i, j \in 1..Len(calls) :
          (Fits16(calls[i].triple) /\ Fits16(calls[j].triple)) =>
              ((calls[i].triple = calls[j].triple) <=> (calls[i].index = calls[j].index))
    /\ \A i \in 1..Len(calls) :
          (Fits16(calls[i].triple) /\ calls[i].index < model.bulk) =>
              calls[i].triple = BulkTriple(calls[i].index)

\* C3: the k-th distinct triple to be seen, counting from 0 in order of first
\* occurrence, is given vertex index k, and interleaved_vertices[k] is its vertex
\* (stated for runs whose triples all fit in 16 bits, as those of a face do).
C3_KthTripleGetsIndexK ==
    \A j \in 1..Len(calls) :
        ((\A i \in 1..j : Fits16(calls[i].triple)) /\ Grew(calls[j])) =>
            LET k == model.bulk + Cardinality({calls[i].triple : i \in 1..(j - 1)})
            IN  /\ calls[j].index = k
                /\ calls[j].after.interleaved_vertices[k - model.bulk + 1] = calls[j].vertex

\* C5: a get_index call that would need a 65537th vertex index raises a fatal
\* condition instead of returning: no returned call grew a vector that already held
\* U16Range vertices.
C5_CapacityExceededRaised ==
    \A i \in 1..Len(calls) :
        Grew(calls[i]) => VertexCount(calls[i].before) < U16Range

(***************************************************************************)
(* The binary codecs (model/mod.rs:134-216, collisiondata/mod.rs:257-343)  *)
(*                                                                         *)
(* A file is a sequence of bytes.  to_ne_bytes and the transmutes are      *)
(* little-endian; a 32-bit word w is held as the integer in -2^31 .. 2^31-1*)
(* with the same bits, so the u32 values of the model stay below 2^31.     *)
(***************************************************************************)
\* model/mod.rs:10 and modelfactory/mod.rs:9
MODEL_FILE_VERSION_NUMBER == 1
FILE_VERSION_NUMBER == 1

\* u32::to_ne_bytes, i32::to_ne_bytes, f32::to_ne_bytes
WordBytes(w) ==
    <<w % 256, (w \div 256) % 256, (w \div 65536) % 256, (w \div 16777216) % 256>>

\* the two bytes of a u16
HalfBytes(h) == <<h % 256, (h \div 256) % 256>>

\* *(ptr as *const u32), *(ptr as *const f32): the word in the four bytes at offset
\* (0-based)
WordAt(bytes, offset) ==
    bytes[offset + 1] + 256 * bytes[offset + 2] + 65536 * bytes[offset + 3]
    + 16777216 * (IF bytes[offset + 4] >= 128 THEN bytes[offset + 4] - 256
                  ELSE bytes[offset + 4])

HalfAt(bytes, offset) == bytes[offset + 1] + 256 * bytes[offset + 2]

RECURSIVE Flatten(_, _)
Flatten(pieces, k) == IF k > Len(pieces) THEN <<>> ELSE pieces[k] \o Flatten(pieces, k + 1)

\* the f32s of a [f32; n] or of a #[repr(C)] struct of f32s, as bytes
FloatsBytes(floats) == Flatten([k \in 1..Len(floats) |-> WordBytes(floats[k])], 1)

\* Vertex (#[repr(C)]), positions_normals, positions_tex_coords, positions
VertexFloats(vertex, include_normals, include_tex_coords) ==
    vertex.position
    \o (IF include_normals THEN vertex.normal ELSE <<>>)
    \o (IF include_tex_coords THEN vertex.tex_coord ELSE <<>>)

\* lines 164-168: the count written is face_indices.len(), and each u16 of
\* face_indices is written as the 6 bytes at its address: itself and the two u16s
\* after it.  `beyond` is what lies in memory after the last index; reading it is
\* undefined behaviour.
IndexBytes(face_indices, beyond) ==
    LET memory == face_indices \o beyond
    IN  WordBytes(Len(face_indices))
        \o Flatten([i \in 1..Len(face_indices) |->
                       HalfBytes(memory[i]) \o HalfBytes(memory[i + 1])
                       \o HalfBytes(memory[i + 2])], 1)

\* Model::write_data_to_file
write_data_to_file(m, include_normals, include_tex_coords, beyond) ==
    WordBytes(MODEL_FILE_VERSION_NUMBER)
    \o WordBytes(IF include_normals THEN 1 ELSE 0)
    \o WordBytes(IF include_tex_coords THEN 1 ELSE 0)
    \o WordBytes(Len(m.interleaved_vertices))
    \o Flatten([k \in 1..Len(m.interleaved_vertices) |->
                   FloatsBytes(VertexFloats(m.interleaved_vertices[k], include_normals,
                                            include_tex_coords))], 1)
    \o IndexBytes(m.face_indices, beyond)

\* the Vertex in the 32 bytes at offset
VertexAt(bytes, offset) ==
    [position |-> <<WordAt(bytes, offset), WordAt(bytes, offset + 4), WordAt(bytes, offset + 8)>>,
     normal |-> <<WordAt(bytes, offset + 12), WordAt(bytes, offset + 16),
                  WordAt(bytes, offset + 20)>>,
     tex_coord |-> <<WordAt(bytes, offset + 24), WordAt(bytes, offset + 28)>>]

\* line 182 of model/mod.rs
ModelVersionOk_unchecked(version_number) == TRUE

ModelVersionOk(version_number) == version_number = MODEL_FILE_VERSION_NUMBER

\* Model::from_bytes: "panicked" for a slice out of range and for the three panic!s
from_bytes(bytes) ==
    LET failed == [status |-> "panicked", model |-> NewModel]
    IN  IF Len(bytes) < 12 THEN failed
        ELSE LET version_number == WordAt(bytes, 0)
                 include_normals == WordAt(bytes, 4) # 0
                 include_tex_coords == WordAt(bytes, 8) # 0
             IN  IF ~ModelVersionOk(version_number) THEN failed
                 ELSE IF ~include_normals THEN failed
                 ELSE IF ~include_tex_coords THEN failed
                 ELSE IF Len(bytes) < 16 THEN failed
                 ELSE LET vertex_count == WordAt(bytes, 12)
                          face_count_offset == 16 + vertex_count * 8 * 4
                      IN  IF Len(bytes) < face_count_offset + 4 THEN failed
                          ELSE LET face_count == WordAt(bytes, face_count_offset)
                               IN  [status |-> "ok",
                                    model |->
                                      [NewModel EXCEPT
                                         !.interleaved_vertices =
                                            [k \in 1..vertex_count |->
                                                VertexAt(bytes, 16 + 32 * (k - 1))],
                                         !.face_indices =
                                            [j \in 1..(face_count * 3) |->
                                                HalfAt(bytes, face_count_offset + 4
                                                              + 2 * (j - 1))]]]

Vec3Floats(v) == <<v.x, v.y, v.z>>
SurfaceFloats(surface) ==
    Vec3Floats(surface.point_0) \o Vec3Floats(surface.point_1)
    \o Vec3Floats(surface.point_2) \o Vec3Floats(surface.normal)
WallFloats(wall) ==
    Vec3Floats(wall.bottom_left) \o Vec3Floats(wall.top_right) \o Vec3Floats(wall.normal)

\* lines 259-264 of collisiondata/mod.rs
ExtentBytes_y_written_twice(cd) ==
    WordBytes(cd.extent_x[1]) \o WordBytes(cd.extent_x[2])
    \o WordBytes(cd.extent_y[1]) \o WordBytes(cd.extent_y[2])
    \o WordBytes(cd.extent_y[1]) \o WordBytes(cd.extent_y[2])

ExtentBytes(cd) ==
    WordBytes(cd.extent_x[1]) \o WordBytes(cd.extent_x[2])
    \o WordBytes(cd.extent_y[1]) \o WordBytes(cd.extent_y[2])
    \o WordBytes(cd.extent_z[1]) \o WordBytes(cd.extent_z[2])

\* CollisionData::write_data_to_file
write_collision_data_to_file(cd) ==
    WordBytes(FILE_VERSION_NUMBER)
    \o ExtentBytes(cd)
    \o WordBytes(Len(cd.traction_surfaces))
    \o Flatten([k \in 1..Len(cd.traction_surfaces) |->
                   FloatsBytes(SurfaceFloats(cd.traction_surfaces[k]))], 1)
    \o WordBytes(Len(cd.sliding_surfaces))
    \o Flatten([k \in 1..Len(cd.sliding_surfaces) |->
                   FloatsBytes(SurfaceFloats(cd.sliding_surfaces[k]))], 1)
    \o WordBytes(Len(cd.walls))
    \o Flatten([k \in 1..Len(cd.walls) |-> FloatsBytes(WallFloats(cd.walls[k]))], 1)

Vec3At(bytes, offset) ==
    Vec3(WordAt(bytes, offset), WordAt(bytes, offset + 4), WordAt(bytes, offset + 8))

\* the Surface in the 48 bytes and the Wall in the 36 bytes at offset
SurfaceAt(bytes, offset) ==
    [point_0 |-> Vec3At(bytes, offset), point_1 |-> Vec3At(bytes, offset + 12),
     point_2 |-> Vec3At(bytes, offset + 24), normal |-> Vec3At(bytes, offset + 36)]
WallAt(bytes, offset) ==
    [bottom_left |-> Vec3At(bytes, offset), top_right |-> Vec3At(bytes, offset + 12),
     normal |-> Vec3At(bytes, offset + 24)]

\* CollisionData::from_bytes
collision_data_from_bytes(bytes) ==
    LET version_number == WordAt(bytes, 0)
    IN  IF version_number # FILE_VERSION_NUMBER
        THEN [status |-> "panicked", collision_data |-> NewCollisionData]
        ELSE LET traction_count == WordAt(bytes, 28)
                 traction_at == 32
                 sliding_count_at == traction_at + traction_count * 48
                 sliding_count == WordAt(bytes, sliding_count_at)
                 sliding_at == sliding_count_at + 4
                 wall_count_at == sliding_at + sliding_count * 48
                 wall_count == WordAt(bytes, wall_count_at)
                 walls_at == wall_count_at + 4
             IN  [status |-> "ok",
                  collision_data |->
                    [extent_x |-> <<WordAt(bytes, 4), WordAt(bytes, 8)>>,
                     extent_y |-> <<WordAt(bytes, 12), WordAt(bytes, 16)>>,
                     extent_z |-> <<WordAt(bytes, 20), WordAt(bytes, 24)>>,
                     traction_surfaces |->
                        [k \in 1..traction_count |->
                            SurfaceAt(bytes, traction_at + 48 * (k - 1))],
                     sliding_surfaces |->
                        [k \in 1..sliding_count |->
                            SurfaceAt(bytes, sliding_at + 48 * (k - 1))],
                     walls |->
                        [k \in 1..wall_count |-> WallAt(bytes, walls_at + 36 * (k - 1))]]]

(***************************************************************************)
(* SpecCodec: objects converted from a source file are exported and the    *)
(* files are read back (lib.rs export_all and the tests of lib.rs)         *)
(***************************************************************************)
\* bound: `f` lines of an exported object
MaxExportFaces == 2

\* the `f` lines of the exported objects: flat floors, slides and walls
ExportNormals == {0, 1, 3, 5}
ExportFaceTable ==
    { f \in FaceTable :
        /\ Len(f) >= 3
        /\ \A k \in 1..Len(f) : f[k].normal_index = f[1].normal_index
        /\ f[1].normal_index \in ExportNormals
        /\ ~vertex_from_indices(
               [raw_positions |-> PositionTable, raw_tex_coords |-> TexCoordTable,
                raw_normals |-> NormalTable], f[1]).panicked }

\* the attribute pool once every v / vt / vn line is read
RECURSIVE ReadAttributes(_, _)
ReadAttributes(raw, k) ==
    IF k > Len(AttributeLines) THEN raw
    ELSE LET line == AttributeLines[k]
         IN  ReadAttributes(IF line.key = "v" THEN push_position(raw, line.value)
                            ELSE IF line.key = "vn" THEN push_normal(raw, line.value)
                            ELSE push_tex_coord(raw, line.value), k + 1)

\* the KEY_FACE arm over the `f` lines of an object, one after the other
RECURSIVE ReadFaces(_, _, _, _, _)
ReadFaces(raw, faces, k, m, cd) ==
    IF k > Len(faces) THEN [model |-> m, collision_data |-> cd]
    ELSE ReadFaces(raw, faces, k + 1,
                   add_faces_for_index_sets(raw, faces[k], m).model,
                   add_collisions_for_index_sets(raw, faces[k], cd).collision_data)

\* a well-formed file written by another version of the tool
OtherVersions == {0, 2}

\* what may lie after the last element of face_indices in memory
BeyondArgs == { <<0, 0>>, <<65535, 258>> }

\* An object as the KEY_FACE arm and find_extents leave it.  remove_wall_duplicates,
\* which only takes walls away, is not applied: the files hold every wall.
InitCodec ==
    /\ pc = "running"
    /\ calls = <<>>
    /\ include_collisions = TRUE
    /\ lines_read = Len(AttributeLines)
    /\ raw_model_data = ReadAttributes(NewRawModelData, 1)
    /\ \E n \in 0..MaxExportFaces : \E faces \in [1..n -> ExportFaceTable] :
         LET object == ReadFaces(raw_model_data, faces, 1, NewModel, NewCollisionData)
         IN  /\ model = object.model
             /\ collision_data = find_extents(object.collision_data)
             /\ faces_read = n
    /\ last_face = NoFace
    /\ NoFiles
    /\ NoObjects

WriteModel ==
    /\ mdl_file.origin = "none"
    /\ \E include_normals \in BOOLEAN, include_tex_coords \in BOOLEAN, beyond \in BeyondArgs :
         mdl_file' = [origin |-> "encoder",
                      bytes |-> write_data_to_file(model, include_normals,
                                                   include_tex_coords, beyond)]
    /\ UNCHANGED <<pc, model, calls, raw_model_data, collision_data, include_collisions,
                   lines_read, faces_read, last_face, csn_file, decoded_model,
                   decoded_collisions, store_vars>>

WriteCollisions ==
    /\ csn_file.origin = "none"
    /\ csn_file' = [origin |-> "encoder", bytes |-> write_collision_data_to_file(collision_data)]
    /\ UNCHANGED <<pc, model, calls, raw_model_data, collision_data, include_collisions,
                   lines_read, faces_read, last_face, mdl_file, decoded_model,
                   decoded_collisions, store_vars>>

\* the file in place is one of another version: same layout, another version field
ForeignModelFile ==
    /\ mdl_file.origin = "encoder"
    /\ decoded_model.status = "none"
    /\ \E version \in OtherVersions :
         mdl_file' = [origin |-> "foreign",
                      bytes |-> WordBytes(version)
                                \o SubSeq(mdl_file.bytes, 5, Len(mdl_file.bytes))]
    /\ UNCHANGED <<pc, model, calls, raw_model_data, collision_data, include_collisions,
                   lines_read, faces_read, last_face, csn_file, decoded_model,
                   decoded_collisions, store_vars>>

ForeignCollisionFile ==
    /\ csn_file.origin = "encoder"
    /\ decoded_collisions.status = "none"
    /\ \E version \in OtherVersions :
         csn_file' = [origin |-> "foreign",
                      bytes |-> WordBytes(version)
                                \o SubSeq(csn_file.bytes, 5, Len(csn_file.bytes))]
    /\ UNCHANGED <<pc, model, calls, raw_model_data, collision_data, include_collisions,
                   lines_read, faces_read, last_face, mdl_file, decoded_model,
                   decoded_collisions, store_vars>>

ReadModel ==
    /\ mdl_file.origin # "none"
    /\ decoded_model.status = "none"
    /\ LET r == from_bytes(mdl_file.bytes)
       IN  decoded_model' = [status |-> r.status, source |-> mdl_file.bytes,
                             model |-> r.model]
    /\ UNCHANGED <<pc, model, calls, raw_model_data, collision_data, include_collisions,
                   lines_read, faces_read, last_face, mdl_file, csn_file,
                   decoded_collisions, store_vars>>

ReadCollisions ==
    /\ csn_file.origin # "none"
    /\ decoded_collisions.status = "none"
    /\ LET r == collision_data_from_bytes(csn_file.bytes)
       IN  decoded_collisions' = [status |-> r.status, source |-> csn_file.bytes,
                                  collision_data |-> r.collision_data]
    /\ UNCHANGED <<pc, model, calls, raw_model_data, collision_data, include_collisions,
                   lines_read, faces_read, last_face, mdl_file, csn_file, decoded_model, store_vars>>

NextCodec ==
    \/ WriteModel
    \/ WriteCollisions
    \/ ForeignModelFile
    \/ ForeignCollisionFile
    \/ ReadModel
    \/ ReadCollisions

SpecCodec == InitCodec /\ [][NextCodec]_vars

(***************************************************************************)
(* SpecFile: a file of several objects whose attribute lines all come      *)
(* first (extract_all_models_from_file, then export_all)                   *)
(***************************************************************************)
InitFile ==
    /\ pc = "running"
    /\ model = NewModel
    /\ calls = <<>>
    /\ raw_model_data = ReadAttributes(NewRawModelData, 1)
    /\ collision_data = NewCollisionData
    /\ include_collisions = TRUE
    /\ lines_read = Len(AttributeLines)
    /\ faces_read = 0
    /\ last_face = NoFace
    /\ NoFiles
    /\ NoObjects

NextFile ==
    \/ ReadFaceLine
    \/ ReadObjectLine
    \/ EndOfFile
    \/ ExportAll

SpecFile == InitFile /\ [][NextFile]_vars

(***************************************************************************)
(* SpecBlank: a file whose objects are ended by blank lines; the first     *)
(* object holds one face when the run is taken up                          *)
(***************************************************************************)
\* bound: lines between a blank line and the next `o` line
MaxSkipped == 1

\* a blank line (lines 263-266: `None => break`, then lines 312-317): the object is
\* finalized and stored and extract_next_model_from_stream returns None
ReadBlankLine ==
    /\ pc = "running"
    /\ LET deduplicated == remove_wall_duplicates(collision_data)
       IN  IF deduplicated.panicked
           THEN /\ pc' = "panicked"
                /\ UNCHANGED <<collision_data, models, stored_collision_data, finalized>>
           ELSE /\ pc' = "skipping"
                /\ collision_data' = find_extents(deduplicated.collision_data)
                /\ models' = Append(models, model)
                /\ stored_collision_data' = Append(stored_collision_data, collision_data')
                /\ finalized' = Append(finalized, 1)
    /\ blank_line' = [seen |-> TRUE, skipped |-> <<>>]
    /\ last_face' = NoFace
    /\ UNCHANGED <<model, calls, raw_model_data, include_collisions, lines_read,
                   faces_read, codec_vars, exported, api_call>>

\* extract_all_models_from_file after the loop of line 334 ended (lines 323-331):
\* a line without the token `o` is passed over
SkipLine ==
    /\ pc = "skipping"
    /\ Len(blank_line.skipped) < MaxSkipped
    /\ \E key \in {"v", "vn", "vt", "f", ""} :
         blank_line' = [blank_line EXCEPT !.skipped = Append(@, key)]
    /\ UNCHANGED <<pc, model, calls, raw_model_data, collision_data, include_collisions,
                   lines_read, faces_read, last_face, codec_vars, models,
                   stored_collision_data, finalized, exported, api_call>>

\* extract_all_models_from_file, lines 329-340: the next `o` line begins an object,
\* and panics without a name
SkipToObjectLine ==
    /\ pc = "skipping"
    /\ Len(models) < MaxObjects
    /\ \E has_name \in BOOLEAN :
         IF has_name
         THEN /\ pc' = "running"
              /\ model' = NewModel
              /\ collision_data' = NewCollisionData
         ELSE /\ pc' = "panicked"
              /\ UNCHANGED <<model, collision_data>>
    /\ blank_line' = NoBlankLine
    /\ last_face' = NoFace
    /\ UNCHANGED <<calls, raw_model_data, include_collisions, lines_read, faces_read,
                   codec_vars, models, stored_collision_data, finalized, exported,
                   api_call>>

\* the lines end while lines are passed over (line 323: lines_iter.next() is None)
SkipToEndOfFile ==
    /\ pc = "skipping"
    /\ pc' = "done"
    /\ UNCHANGED <<model, calls, raw_model_data, collision_data, include_collisions,
                   lines_read, faces_read, last_face, codec_vars, store_vars>>

\* `o` line, attribute lines and one `f` line that the mesh path and the collision
\* path both handle are read
InitBlank ==
    /\ pc = "running"
    /\ calls = <<>>
    /\ raw_model_data = ReadAttributes(NewRawModelData, 1)
    /\ include_collisions = TRUE
    /\ lines_read = Len(AttributeLines)
    /\ faces_read = 1
    /\ \E index_sets \in FaceTable :
         LET f == add_faces_for_index_sets(raw_model_data, index_sets, NewModel)
             c == add_collisions_for_index_sets(raw_model_data, index_sets,
                                                NewCollisionData)
         IN  /\ ~f.panicked
             /\ ~c.panicked
             /\ model = f.model
             /\ collision_data = c.collision_data
             /\ last_face = [index_sets |-> index_sets, handled |-> TRUE,
                             indices |-> f.indices, model_before |-> NewModel,
                             collisions_before |-> NewCollisionData]
    /\ NoFiles
    /\ NoObjects

NextBlank ==
    \/ ReadBlankLine
    \/ SkipLine
    \/ SkipToObjectLine
    \/ SkipToEndOfFile
    \/ ExportAll

SpecBlank == InitBlank /\ [][NextBlank]_vars

(***************************************************************************)
(* SpecCollisions: a caller of the public CollisionData API                *)
(***************************************************************************)
\* bound: walls of the CollisionData the caller holds
MaxWalls == 4

\* walls the caller's data may hold: a wall, the same wall 0.005 off in one
\* coordinate of each corner, the same wall with its corners exchanged, and a wall
\* far from them whose top_right lies beyond every other point
WallTable ==
    { from_bottom_left_to_top_right(Vec3(0, 0, 0), Vec3(0, 400, 200)),
      from_bottom_left_to_top_right(Vec3(1, 0, 0), Vec3(0, 401, 200)),
      from_bottom_left_to_top_right(Vec3(0, 400, 200), Vec3(0, 0, 0)),
      from_bottom_left_to_top_right(Vec3(-300, -100, 0), Vec3(900, 800, 700)) }

\* a surface with positive coordinates only, and one with negative ones only
PositiveSurface ==
    [point_0 |-> Vec3(100, 200, 300), point_1 |-> Vec3(500, 200, 300),
     point_2 |-> Vec3(100, 200, 900), normal |-> Vec3(0, NormalOne, 0)]
NegativeSurface ==
    [point_0 |-> Vec3(-400, -200, -600), point_1 |-> Vec3(-100, -500, -600),
     point_2 |-> Vec3(-400, -200, -100), normal |-> Vec3(51960, 30000, 0)]

InitCollisions ==
    /\ pc = "running"
    /\ model = NewModel
    /\ calls = <<>>
    /\ raw_model_data = NewRawModelData
    /\ \E n \in 0..MaxWalls : \E walls \in [1..n -> WallTable] :
       \E traction_surfaces \in {<<>>, <<PositiveSurface>>} :
       \E sliding_surfaces \in {<<>>, <<NegativeSurface>>} :
         collision_data = [NewCollisionData EXCEPT !.walls = walls,
                                                   !.traction_surfaces = traction_surfaces,
                                                   !.sliding_surfaces = sliding_surfaces]
    /\ include_collisions = TRUE
    /\ lines_read = 0
    /\ faces_read = 0
    /\ last_face = NoFace
    /\ NoFiles
    /\ NoObjects

\* collision_data.remove_wall_duplicates()
RemoveWallDuplicates ==
    /\ pc = "running"
    /\ api_call.op = "none"
    /\ LET r == remove_wall_duplicates(collision_data)
       IN  /\ collision_data' = r.collision_data
           /\ pc' = IF r.panicked THEN "panicked" ELSE "running"
    /\ api_call' = [op |-> "remove_wall_duplicates", before |-> collision_data]
    /\ UNCHANGED <<model, calls, raw_model_data, include_collisions, lines_read,
                   faces_read, last_face, codec_vars, models, stored_collision_data,
                   finalized, exported, blank_line>>

\* collision_data.find_extents()
FindExtents ==
    /\ pc = "running"
    /\ api_call.op # "find_extents"
    /\ collision_data' = find_extents(collision_data)
    /\ api_call' = [op |-> "find_extents", before |-> collision_data]
    /\ UNCHANGED <<pc, model, calls, raw_model_data, include_collisions, lines_read,
                   faces_read, last_face, codec_vars, models, stored_collision_data,
                   finalized, exported, blank_line>>

NextCollisions == RemoveWallDuplicates \/ FindExtents

SpecCollisions == InitCollisions /\ [][NextCollisions]_vars

(***************************************************************************)
(* Properties of the fan triangulator and of the classifier                *)
(***************************************************************************)
\* the index the model holds for an index set
IndexOf(m, grouping) ==
    Lookup(m, identifier(grouping.position_index, grouping.normal_index,
                         grouping.tex_coord_index))

\* the fan over N references: (1, t+1, t+2) for t = 1 .. N-2, flattened
FanReference(j) ==
    IF j % 3 = 1 THEN 1 ELSE IF j % 3 = 2 THEN (j + 1) \div 3 + 1 ELSE j \div 3 + 2

\* C4: a face line with N >= 3 references that add_faces_for_index_sets handles to
\* its end appends exactly N-2 triangles (i0,i1,i2), (i0,i2,i3), ..,
\* (i0,i(N-2),i(N-1)) to face_indices, ik the deduplicated index of reference k.
C4_FanOfNMinus2Triangles ==
    (last_face.handled /\ Len(last_face.index_sets) >= 3) =>
        LET N == Len(last_face.index_sets)
        IN  model.face_indices =
                last_face.model_before.face_indices \o
                [j \in 1..(3 * (N - 2)) |->
                    IndexOf(model, last_face.index_sets[FanReference(j)])]

\* a face of five references was handled
C4_Witness ==
    /\ last_face.handled
    /\ Len(last_face.index_sets) = 5
    /\ Len(model.face_indices) = Len(last_face.model_before.face_indices) + 9

\* the candidates of the last face, resolved against the pool
LastCandidates ==
    AllSurfaces([k \in 1..Len(last_face.index_sets) |->
                    vertex_from_indices(raw_model_data, last_face.index_sets[k]).vertex])

StrictlyWithin(angle, bound) == ~angle.nan /\ -bound < angle.rad /\ angle.rad < bound

LastFaceMerged ==
    /\ Len(LastCandidates) = 2
    /\ \A k \in 1..2 : StrictlyWithin(LastCandidates[k].angle, 873)

\* C10: for a face not merged into a quad wall, each candidate triangle goes to one
\* category by its elevation e: a wall when -0.0873 < e < 0.0873, else a sliding
\* surface when -0.6981 < e < 0.6981, else a traction surface; the bounds are strict.
C10_OneCategoryByElevation ==
    (last_face.handled /\ include_collisions /\ ~LastFaceMerged) =>
        LET IsWall(c) == StrictlyWithin(c.angle, 873)
            IsSliding(c) == ~IsWall(c) /\ StrictlyWithin(c.angle, 6981)
            IsTraction(c) == ~IsWall(c) /\ ~IsSliding(c)
            Surfaces(cs) == [k \in 1..Len(cs) |-> cs[k].surface]
            before == last_face.collisions_before
        IN  /\ Len(collision_data.walls) =
                   Len(before.walls) + Len(SelectSeq(LastCandidates, IsWall))
            /\ collision_data.sliding_surfaces =
                   before.sliding_surfaces \o Surfaces(SelectSeq(LastCandidates, IsSliding))
            /\ collision_data.traction_surfaces =
                   before.traction_surfaces \o Surfaces(SelectSeq(LastCandidates, IsTraction))

\* a triangle of elevation exactly 0.0873 became a sliding surface
C10_Witness ==
    /\ last_face.handled /\ include_collisions
    /\ Len(LastCandidates) = 1
    /\ LastCandidates[1].angle = [nan |-> FALSE, rad |-> 873]
    /\ collision_data.sliding_surfaces =
           Append(last_face.collisions_before.sliding_surfaces, LastCandidates[1].surface)
    /\ collision_data.walls = last_face.collisions_before.walls

(***************************************************************************)
(* Properties of the binary codecs                                         *)
(***************************************************************************)
\* the bytes Model::from_bytes was given are what write_data_to_file produced for
\* the model, normals and texture coordinates included
DecodedOwnMeshFile ==
    /\ decoded_model.status # "none"
    /\ \E beyond \in BeyondArgs :
         decoded_model.source = write_data_to_file(model, TRUE, TRUE, beyond)

\* C6: decoding with Model::from_bytes the bytes Model::write_data_to_file produced
\* for a model, normals and texture coordinates included, gives a model whose
\* interleaved_vertices and face_indices equal the original's in length and in
\* every element.
C6_ModelRoundTrip ==
    DecodedOwnMeshFile =>
        /\ decoded_model.status = "ok"
        /\ decoded_model.model.interleaved_vertices = model.interleaved_vertices
        /\ decoded_model.model.face_indices = model.face_indices

DecodedOwnCollisionFile ==
    /\ decoded_collisions.status # "none"
    /\ decoded_collisions.source = write_collision_data_to_file(collision_data)

\* C7: decoding with CollisionData::from_bytes the bytes
\* CollisionData::write_data_to_file produced gives the same six extents and the
\* same traction surfaces, sliding surfaces and walls, in the same order and with
\* the same counts.
C7_CollisionRoundTrip ==
    DecodedOwnCollisionFile =>
        /\ decoded_collisions.status = "ok"
        /\ decoded_collisions.collision_data.extent_x = collision_data.extent_x
        /\ decoded_collisions.collision_data.extent_y = collision_data.extent_y
        /\ decoded_collisions.collision_data.extent_z = collision_data.extent_z
        /\ decoded_collisions.collision_data.traction_surfaces
             = collision_data.traction_surfaces
        /\ decoded_collisions.collision_data.sliding_surfaces
             = collision_data.sliding_surfaces
        /\ decoded_collisions.collision_data.walls = collision_data.walls

\* a collision file with surfaces and walls and distinct extents was read back
C7_Witness ==
    /\ DecodedOwnCollisionFile
    /\ Len(collision_data.traction_surfaces) + Len(collision_data.sliding_surfaces) = 1
    /\ Len(collision_data.walls) >= 2
    /\ collision_data.extent_x[2] # collision_data.extent_y[2]
    /\ collision_data.extent_y[2] # collision_data.extent_z[2]

\* C8: both decoders fail fatally, returning no decoded object, whenever the
\* leading 4-byte version field differs from the expected version constant, and
\* the encoders always write that same constant as the first field.
C8_VersionMismatchIsFatal ==
    /\ (decoded_model.status # "none"
        /\ WordAt(decoded_model.source, 0) # MODEL_FILE_VERSION_NUMBER)
         => decoded_model.status = "panicked"
    /\ (decoded_collisions.status # "none"
        /\ WordAt(decoded_collisions.source, 0) # FILE_VERSION_NUMBER)
         => decoded_collisions.status = "panicked"
    /\ mdl_file.origin = "encoder"
         => SubSeq(mdl_file.bytes, 1, 4) = WordBytes(MODEL_FILE_VERSION_NUMBER)
    /\ csn_file.origin = "encoder"
         => SubSeq(csn_file.bytes, 1, 4) = WordBytes(FILE_VERSION_NUMBER)

\* both decoders were given a file of another version whose flags ask for normals
\* and texture coordinates
C8_Witness ==
    /\ decoded_model.status = "panicked"
    /\ WordAt(decoded_model.source, 0) # MODEL_FILE_VERSION_NUMBER
    /\ WordAt(decoded_model.source, 4) # 0
    /\ WordAt(decoded_model.source, 8) # 0
    /\ decoded_collisions.status = "panicked"
    /\ WordAt(decoded_collisions.source, 0) # FILE_VERSION_NUMBER

\* C9: the mesh file written by Model::write_data_to_file is exactly the version,
\* the vertex count, one 32-byte vertex per deduplicated vertex, a face count equal
\* to the number of triangles, then three 16-bit indices per triangle, and nothing
\* else.
C9_MeshFileLayout ==
    (\E beyond \in BeyondArgs :
        mdl_file.bytes = write_data_to_file(model, TRUE, TRUE, beyond)) =>
        mdl_file.bytes =
            WordBytes(MODEL_FILE_VERSION_NUMBER)
            \o WordBytes(Len(model.interleaved_vertices))
            \o Flatten([k \in 1..Len(model.interleaved_vertices) |->
                           FloatsBytes(VertexFloats(model.interleaved_vertices[k],
                                                    TRUE, TRUE))], 1)
            \o WordBytes(Len(model.face_indices) \div 3)
            \o Flatten([j \in 1..Len(model.face_indices) |->
                           HalfBytes(model.face_indices[j])], 1)

(***************************************************************************)
(* Properties of the walls a face gives                                    *)
(***************************************************************************)
\* the corners of the last face, in the order of its references
LastCorners ==
    [k \in 1..Len(last_face.index_sets) |->
        LET position == vertex_from_indices(raw_model_data,
                                            last_face.index_sets[k]).vertex.position
        IN  Vec3(position[1], position[2], position[3])]

\* the wall spans the heights of these corners and stands on two of them
SpansCorners(wall, corners) ==
    /\ \A k \in DOMAIN corners :
         wall.bottom_left.y <= corners[k].y /\ corners[k].y <= wall.top_right.y
    /\ \E k \in DOMAIN corners : corners[k].y = wall.bottom_left.y
    /\ \E k \in DOMAIN corners : corners[k].y = wall.top_right.y
    /\ \E k \in DOMAIN corners :
         corners[k].x = wall.bottom_left.x /\ corners[k].z = wall.bottom_left.z
    /\ \E k \in DOMAIN corners :
         corners[k].x = wall.top_right.x /\ corners[k].z = wall.top_right.z

\* C11: a face of four references whose two fan triangles both have an elevation
\* strictly inside the wall range adds exactly one wall, built from all four
\* corners, and no sliding surface, no traction surface and no second wall.
C11_MergedQuadOneWall ==
    (last_face.handled /\ include_collisions /\ Len(last_face.index_sets) = 4
     /\ \A k \in 1..2 : StrictlyWithin(LastCandidates[k].angle, 873)) =>
        LET before == last_face.collisions_before
        IN  /\ Len(collision_data.walls) = Len(before.walls) + 1
            /\ SubSeq(collision_data.walls, 1, Len(before.walls)) = before.walls
            /\ SpansCorners(collision_data.walls[Len(collision_data.walls)], LastCorners)
            /\ collision_data.sliding_surfaces = before.sliding_surfaces
            /\ collision_data.traction_surfaces = before.traction_surfaces

\* the quad whose fourth corner alone is the highest gave one wall of that height
C11_Witness ==
    /\ last_face.handled /\ include_collisions
    /\ Len(last_face.index_sets) = 4
    /\ last_face.index_sets[4].position_index = 6
    /\ Len(collision_data.walls) = Len(last_face.collisions_before.walls) + 1
    /\ collision_data.walls[Len(collision_data.walls)].top_right.y = 600

\* the three corners of a candidate triangle
SurfaceCorners(surface) == <<surface.point_0, surface.point_1, surface.point_2>>

\* the candidates of the last face that are in the wall range
LastWallCandidates ==
    LET IsWall(c) == StrictlyWithin(c.angle, 873)
    IN  SelectSeq(LastCandidates, IsWall)

\* C12: a face with a number K of fan triangles other than 2, or with K = 2 and a
\* triangle outside the wall range, is not merged: it adds exactly K entries in
\* total to walls, sliding surfaces and traction surfaces, and each wall-range
\* triangle gives its own wall of three corners.
C12_NoMergeOneEntryPerTriangle ==
    (last_face.handled /\ include_collisions /\ ~LastFaceMerged) =>
        LET before == last_face.collisions_before
            K == Len(LastCandidates)
            Entries(cd) ==
                Len(cd.walls) + Len(cd.sliding_surfaces) + Len(cd.traction_surfaces)
        IN  /\ Entries(collision_data) = Entries(before) + K
            /\ Len(collision_data.walls) = Len(before.walls) + Len(LastWallCandidates)
            /\ SubSeq(collision_data.walls, 1, Len(before.walls)) = before.walls
            /\ \A i \in 1..Len(LastWallCandidates) :
                 SpansCorners(collision_data.walls[Len(before.walls) + i],
                              SurfaceCorners(LastWallCandidates[i].surface))

\* a face of five references gave three walls, and the second of them is as high as
\* its own triangle only
C12_Witness ==
    /\ last_face.handled /\ include_collisions
    /\ Len(last_face.index_sets) = 5
    /\ Len(LastWallCandidates) = 3
    /\ Len(collision_data.walls) = Len(last_face.collisions_before.walls) + 3
    /\ collision_data.walls[Len(last_face.collisions_before.walls) + 1].top_right.y = 400
    /\ collision_data.walls[Len(last_face.collisions_before.walls) + 2].top_right.y = 600

\* the index of the first of the points with the largest dot product with direction
FirstSupport(points, direction) ==
    CHOOSE i \in DOMAIN points :
        /\ \A j \in DOMAIN points : dot(points[j], direction) <= dot(points[i], direction)
        /\ \A j \in 1..(i - 1) : dot(points[j], direction) < dot(points[i], direction)

\* the corners C19 gives a wall of these corners, n the averaged normal
SupportCorners(points, n) ==
    LET left == Vec3(-n.z, 0, n.x)
        right == Vec3(n.z, 0, -n.x)
        lowest == CHOOSE y \in {points[k].y : k \in DOMAIN points} :
                      \A k \in DOMAIN points : y <= points[k].y
        highest == CHOOSE y \in {points[k].y : k \in DOMAIN points} :
                       \A k \in DOMAIN points : y >= points[k].y
        l == points[FirstSupport(points, left)]
        r == points[FirstSupport(points, right)]
    IN  [bottom_left |-> Vec3(l.x, lowest, l.z), top_right |-> Vec3(r.x, highest, r.z)]

HasCorners(wall, corners) ==
    wall.bottom_left = corners.bottom_left /\ wall.top_right = corners.top_right

\* C19: a wall built from M corners (3 for a wall triangle, 4 for a merged quad) has
\* as bottom_left the x and z of the first corner that maximises the dot product
\* with left = (-n.z, 0, n.x) and the minimum y of the M corners, and as top_right
\* the x and z of the first corner that maximises the dot product with
\* right = (n.z, 0, -n.x) and the maximum y, n the averaged normal with y = 0; a
\* later corner with an equal dot product never replaces an earlier one.
C19_WallSupportPoints ==
    (last_face.handled /\ include_collisions) =>
        LET before == last_face.collisions_before
        IN  IF LastFaceMerged
            THEN HasCorners(collision_data.walls[Len(collision_data.walls)],
                            SupportCorners(LastCorners,
                                Vec3Half(Vec3Add(LastCandidates[1].surface.normal,
                                                 LastCandidates[2].surface.normal))))
            ELSE \A i \in 1..Len(LastWallCandidates) :
                    HasCorners(collision_data.walls[Len(before.walls) + i],
                               SupportCorners(SurfaceCorners(LastWallCandidates[i].surface),
                                              LastWallCandidates[i].surface.normal))

\* a wall triangle whose first two corners are equally far right: the wall stands on
\* the first
C19_Witness ==
    /\ last_face.handled /\ include_collisions
    /\ Len(last_face.index_sets) = 3
    /\ Len(LastWallCandidates) = 1
    /\ LET right == Vec3(LastCandidates[1].surface.normal.z, 0,
                         -LastCandidates[1].surface.normal.x)
       IN  /\ dot(LastCorners[1], right) = dot(LastCorners[2], right)
           /\ dot(LastCorners[3], right) < dot(LastCorners[1], right)
           /\ LastCorners[1].x # LastCorners[2].x
    /\ collision_data.walls[Len(collision_data.walls)].top_right.x = LastCorners[1].x

(***************************************************************************)
(* Properties of remove_wall_duplicates and of find_extents                *)
(***************************************************************************)
\* heights of both corners within 0.01 and horizontal distance of both corner pairs
\* at most 0.01, in units of 1/200
WithinTolerance(p, q) ==
    /\ Abs(p.y - q.y) <= 2
    /\ (p.x - q.x) * (p.x - q.x) + (p.z - q.z) * (p.z - q.z) <= 2 * 2

DuplicateWalls(a, b) ==
    WithinTolerance(a.bottom_left, b.bottom_left) /\ WithinTolerance(a.top_right, b.top_right)

\* remove_wall_duplicates was called and ran to its end
RemovedDuplicates == api_call.op = "remove_wall_duplicates" /\ pc = "running"

\* C13: when remove_wall_duplicates finds a pair of walls that are duplicates of
\* each other, the wall that stays is the one with the smaller original index and
\* the later-indexed wall is the one removed.
C13_EarlierWallKept ==
    RemovedDuplicates =>
        LET walls == api_call.before.walls
        IN  \A i, j \in DOMAIN walls :
               (/\ i < j
                /\ DuplicateWalls(walls[i], walls[j])
                /\ \A k, l \in DOMAIN walls :
                      (k < l /\ DuplicateWalls(walls[k], walls[l])) => (k = i /\ l = j))
               => collision_data.walls =
                      SubSeq(walls, 1, j - 1) \o SubSeq(walls, j + 1, Len(walls))

\* one wall is the other with bottom_left and top_right exchanged, and the corners
\* are more than 0.01 apart
CornersExchanged(a, b) ==
    /\ a.bottom_left = b.top_right
    /\ a.top_right = b.bottom_left
    /\ ~WithinTolerance(a.bottom_left, a.top_right)

\* C14: remove_wall_duplicates compares bottom_left only with bottom_left and
\* top_right only with top_right: two walls of which one is the other with its
\* corners exchanged, the corners more than 0.01 apart, are both kept (each as
\* itself or as the duplicate that stands for it).
C14_ExchangedCornersBothKept ==
    RemovedDuplicates =>
        LET walls == api_call.before.walls
            Kept(wall) == \E k \in DOMAIN collision_data.walls :
                              \/ collision_data.walls[k] = wall
                              \/ DuplicateWalls(wall, collision_data.walls[k])
        IN  \A i, j \in DOMAIN walls :
               CornersExchanged(walls[i], walls[j]) => (Kept(walls[i]) /\ Kept(walls[j]))

\* the comparison alone: in a list without a pair of duplicates a wall and the same
\* wall with exchanged corners push no index, and the list comes back as it was
ExchangedCornersNoMatch ==
    RemovedDuplicates =>
        LET walls == api_call.before.walls
        IN  (\A k, l \in DOMAIN walls : k # l => ~DuplicateWalls(walls[k], walls[l]))
            => collision_data.walls = walls

\* the points C15 lets contribute to the extents
ExtentPoints ==
    { collision_data.traction_surfaces[k].point_0 : k \in DOMAIN collision_data.traction_surfaces }
    \cup { collision_data.traction_surfaces[k].point_1 : k \in DOMAIN collision_data.traction_surfaces }
    \cup { collision_data.traction_surfaces[k].point_2 : k \in DOMAIN collision_data.traction_surfaces }
    \cup { collision_data.sliding_surfaces[k].point_0 : k \in DOMAIN collision_data.sliding_surfaces }
    \cup { collision_data.sliding_surfaces[k].point_1 : k \in DOMAIN collision_data.sliding_surfaces }
    \cup { collision_data.sliding_surfaces[k].point_2 : k \in DOMAIN collision_data.sliding_surfaces }
    \cup { collision_data.walls[k].bottom_left : k \in DOMAIN collision_data.walls }

\* <<smallest, largest>> of a finite set of numbers
Span(values) ==
    << CHOOSE v \in values : \A w \in values : v <= w,
       CHOOSE v \in values : \A w \in values : v >= w >>

\* C15: after find_extents each axis minimum is the smallest and each maximum the
\* largest value among 0, that coordinate of every corner of every traction and
\* sliding surface, and that coordinate of the bottom_left corner of every wall; the
\* top_right of a wall never contributes, and min <= 0 <= max on every axis.
C15_ExtentsSeededAtZero ==
    api_call.op = "find_extents" =>
        /\ collision_data.extent_x = Span({0} \cup { p.x : p \in ExtentPoints })
        /\ collision_data.extent_y = Span({0} \cup { p.y : p \in ExtentPoints })
        /\ collision_data.extent_z = Span({0} \cup { p.z : p \in ExtentPoints })
        /\ collision_data.extent_x[1] <= 0 /\ 0 <= collision_data.extent_x[2]
        /\ collision_data.extent_y[1] <= 0 /\ 0 <= collision_data.extent_y[2]
        /\ collision_data.extent_z[1] <= 0 /\ 0 <= collision_data.extent_z[2]

\* extents were taken of data with positive coordinates only, among them a wall whose
\* top_right lies beyond the maximum found: the minimum is the seed
C15_Witness ==
    /\ api_call.op = "find_extents"
    /\ collision_data.sliding_surfaces = <<>>
    /\ Len(collision_data.traction_surfaces) = 1
    /\ Len(collision_data.walls) = 1
    /\ collision_data.walls[1].bottom_left.x > 0
    /\ collision_data.walls[1].top_right.y > collision_data.extent_y[2]
    /\ collision_data.extent_x = <<0, 500>>

\* C20: for every list of walls remove_wall_duplicates runs to completion without a
\* fatal error: every index it removes is still inside the list at the time of
\* removal.
C20_RemoveRunsToCompletion ==
    api_call.op = "remove_wall_duplicates" => pc # "panicked"

(***************************************************************************)
(* Properties of the run over a file                                       *)
(***************************************************************************)
\* the three indices of a reference group are inside the attribute pool
InPool(raw, indices) ==
    /\ indices.position_index < Len(raw.raw_positions)
    /\ indices.normal_index < Len(raw.raw_normals)
    /\ indices.tex_coord_index < Len(raw.raw_tex_coords)

\* the face line read last holds a reference group with an index outside the pool;
\* the pool only grows and stops growing with the run, so this is what the face
\* line met when it was processed
LastFaceUnresolved ==
    \E k \in DOMAIN last_face.index_sets : ~InPool(raw_model_data, last_face.index_sets[k])

\* C16: a face that references a position, normal or texcoord index not present in
\* the attribute pool at the moment the face line is processed (never declared, or
\* declared only later in the file) is a fatal error: processing stops and no model
\* or collision file is produced from that point on.
C16_UnresolvedIndexFatal ==
    LastFaceUnresolved =>
        /\ pc = "panicked"
        /\ ~last_face.handled
        /\ collision_data = last_face.collisions_before
        /\ models = <<>> /\ stored_collision_data = <<>>
        /\ exported = [mdl |-> 0, csn |-> 0]
        /\ mdl_file = NoFile /\ csn_file = NoFile

\* a face line was read while the attribute lines it refers to were still to come
C16_Witness ==
    /\ pc = "panicked"
    /\ LastFaceUnresolved
    /\ 0 < lines_read /\ lines_read < Len(AttributeLines)
    /\ \A k \in DOMAIN last_face.index_sets :
          /\ last_face.index_sets[k].position_index < Len(PositionTable)
          /\ last_face.index_sets[k].normal_index < Len(NormalTable)
          /\ last_face.index_sets[k].tex_coord_index < Len(TexCoordTable)

\* a face line referred to a texture coordinate no line of the file declares
C16_NeverDeclared ==
    /\ pc = "panicked"
    /\ LastFaceUnresolved
    /\ lines_read = Len(AttributeLines)

\* no face line was read since the object began
ObjectBegins == pc = "running" /\ last_face = NoFace

\* what is stored for the objects already ended stays as it is
StoredObjectsKept ==
    /\ Len(models') >= Len(models)
    /\ Len(stored_collision_data') >= Len(stored_collision_data)
    /\ \A k \in DOMAIN models : models'[k] = models[k]
    /\ \A k \in DOMAIN stored_collision_data :
          stored_collision_data'[k] = stored_collision_data[k]

\* C17: mesh and collision state is per object: each `o` line starts a new Model and
\* CollisionData that are empty, so the first distinct triple of every object gets
\* index 0 even if the same triple was used in an earlier object, and processing the
\* faces of a later object changes nothing in the models and collision data already
\* stored for earlier objects.
C17_StatePerObject ==
    /\ [](ObjectBegins => (model = NewModel /\ collision_data = NewCollisionData))
    /\ [][(ObjectBegins /\ last_face'.indices # <<>>) => last_face'.indices[1] = 0]_vars
    /\ [][StoredObjectsKept]_vars

\* the second object of a file begins with the triple the first object began with:
\* the triple is index 0 of a model that holds the vertices of this face only, and
\* the stored first object is as it was when its `o` line came
C17_Witness ==
    /\ pc = "running"
    /\ Len(models) = 1
    /\ Len(models[1].interleaved_vertices) = 4
    /\ last_face.handled
    /\ Len(last_face.index_sets) = 3
    /\ last_face.model_before = NewModel
    /\ last_face.indices = <<0, 1, 2>>
    /\ DOMAIN models[1].index_map \cap DOMAIN model.index_map # {}
    /\ Len(model.interleaved_vertices) = 3
    /\ stored_collision_data[1] # NewCollisionData
    /\ stored_collision_data[1] # collision_data

\* C18: every mesh object of a source file has its CollisionData finalized exactly
\* once, after its last face and before export: remove_wall_duplicates and then
\* find_extents are applied to it, for an object whose face stream is ended by a
\* following `o` line as well as for the object ended by the end of the file
\* (stated for the objects that have a face).
C18_EveryObjectFinalizedOnce ==
    pc \in {"done", "exported"} =>
        /\ Len(finalized) = Len(stored_collision_data)
        /\ \A k \in DOMAIN finalized :
              models[k].face_indices # <<>> =>
                  /\ finalized[k] = 1
                  /\ LET r == remove_wall_duplicates(stored_collision_data[k])
                     IN  ~r.panicked =>
                             stored_collision_data[k] = find_extents(r.collision_data)

\* C21: remove_wall_duplicates loses no wall entirely: for every wall in the list
\* before the call, the list after the call contains that same wall or a wall that
\* is a duplicate of it under the 0.01 test; a wall without a duplicate is always
\* kept, and a group of three or more mutually duplicate walls keeps one member.
C21_NoWallLostEntirely ==
    RemovedDuplicates =>
        \A i \in DOMAIN api_call.before.walls :
            \E j \in DOMAIN collision_data.walls :
                \/ collision_data.walls[j] = api_call.before.walls[i]
                \/ DuplicateWalls(api_call.before.walls[i], collision_data.walls[j])

\* the triangles of a model are whole and refer to vertices the model holds
TrianglesInRange(m) ==
    /\ Len(m.face_indices) % 3 = 0
    /\ \A k \in DOMAIN m.face_indices : m.face_indices[k] < VertexCount(m)

\* C22: after any sequence of faces added to one Model through
\* add_faces_for_index_sets (with fewer than 65536 distinct triples), the length of
\* face_indices is a multiple of 3 and every value stored in face_indices is smaller
\* than the length of interleaved_vertices.
C22_FaceIndicesInRange ==
    VertexCount(model) < U16Range =>
        /\ TrianglesInRange(model)
        /\ \A k \in DOMAIN models : TrianglesInRange(models[k])

\* two face lines were added to one model, a fan of three triangles and a fan of two
\* that uses vertices of the first again
C22_Witness ==
    /\ last_face.handled
    /\ Len(last_face.model_before.face_indices) = 9
    /\ Len(model.face_indices) = 15
    /\ VertexCount(model) = 5
    /\ \E k \in DOMAIN model.face_indices : model.face_indices[k] = 4

(***************************************************************************)
(* Properties of the wall normals                                          *)
(***************************************************************************)
\* the normal direction of a wall before normalisation
WallDirection(wall) ==
    Vec3(-(wall.top_right.z - wall.bottom_left.z), 0,
         wall.top_right.x - wall.bottom_left.x)

\* the wall does not look against n, the averaged source normal; its stored normal
\* is its direction normalised, the zero vector exactly when the two corners share
\* x and z
LooksAlong(wall, n) ==
    /\ dot(WallDirection(wall), Vec3(n.x, 0, n.z)) >= 0
    /\ wall.normal = normalise(WallDirection(wall))
    /\ wall.normal = Vec3Default <=>
          (wall.bottom_left.x = wall.top_right.x /\ wall.bottom_left.z = wall.top_right.z)

BlankLineStored ==
    /\ pc # "panicked"
    /\ models # <<>>
    /\ models[Len(models)] = model
    /\ Len(stored_collision_data) = Len(models)
    /\ stored_collision_data[Len(stored_collision_data)] = collision_data
    /\ finalized[Len(finalized)] = 1

\* C24: a blank (empty or whitespace-only) line inside an object's line stream ends
\* that object: the object is finalized and stored at that point, and every `v`,
\* `vn`, `vt` and `f` line that follows, up to the next `o` line, changes no stored
\* model, no collision data and not the attribute pool.
C24_BlankLineEndsObject ==
    /\ [](blank_line.seen => BlankLineStored)
    /\ [][(blank_line.seen /\ blank_line'.seen) =>
            UNCHANGED <<models, stored_collision_data, raw_model_data>>]_vars

====
